---- MODULE Spec2Model ----
(***************************************************************************)
(* Model of env.py, the fixture generator of api-deployment-explorer.      *)
(*                                                                         *)
(* The script is one sequential process: it builds the list `data` in a    *)
(* nested loop, prints json.dumps(data, indent=2) on standard output and   *)
(* then dumps the same list into env.json.  Python strings are TLA+        *)
(* strings; the conversions the script applies to them (decimal            *)
(* formatting inside f-strings, the {{ }} escapes of f-string literals,    *)
(* str.lower, the JSON encoder, print's line terminator) are operators     *)
(* that work character by character.  The environment is the file          *)
(* env.json (absent or with arbitrary earlier contents) and the two        *)
(* output channels, each of which can refuse a write.  A behaviour holds   *)
(* up to MaxRuns successive executions of the script against the same      *)
(* working directory.                                                      *)
(***************************************************************************)
EXTENDS Integers, Sequences, FiniteSets

VARIABLES
    pc,             \* position of the running process in env.py
    it_regions,     \* items the enumerate(regions) iterator has produced
    idx,            \* env.py:8   loop variable
    region,         \* env.py:8   loop variable
    env,            \* env.py:9
    env_lower,      \* env.py:10
    it_clusters,    \* items the range(1, 21) iterator has produced
    c,              \* env.py:12  loop variable
    cluster_type,   \* env.py:13
    name,           \* env.py:14
    data,           \* env.py:6   the output sequence
    stdout,         \* what the running process has written to standard output
    file_exists,    \* whether env.json exists in the working directory
    file,           \* contents of env.json (meaningful when file_exists)
    exit,           \* "running", "success" (status 0) or "failure" (status 1)
    raised_at,      \* line of env.py whose call raised, 0 if none
    run,            \* ordinal of the running execution
    ok_runs,        \* executions that ended with status 0 so far
    first_ok        \* the outputs the first of them left behind

vars == <<pc, it_regions, idx, region, env, env_lower, it_clusters, c,
          cluster_type, name, data, stdout, file_exists, file, exit,
          raised_at, run, ok_runs, first_ok>>

-----------------------------------------------------------------------------
(* Bounds of the model.                                                    *)

\* successive executions of the script in one behaviour
MaxRuns == 2
\* distinct earlier contents of env.json tried for the first execution
MaxPrior == 1
\* an interrupted write leaves one of MaxCuts + 1 prefixes of the text
MaxCuts == 1

-----------------------------------------------------------------------------
(* Python built-ins used by the script.                                    *)

\* a range that wrongly includes its end point
range_inclusive(lo, hi) == [i \in 1..(IF hi >= lo THEN hi - lo + 1 ELSE 0) |-> lo + i - 1]

\* range(lo, hi): lo, lo + 1, ..., hi - 1
range(lo, hi) == [i \in 1..(IF hi > lo THEN hi - lo ELSE 0) |-> lo + i - 1]

Digits == <<"0", "1", "2", "3", "4", "5", "6", "7", "8", "9">>

\* str(n) for n >= 0, as the replacement field {n} of an f-string formats it
RECURSIVE str(_)
str(n) == IF n < 10 THEN Digits[n + 1]
          ELSE str(n \div 10) \o Digits[(n % 10) + 1]

Upper == <<"A", "B", "C", "D", "E", "F", "G", "H", "I", "J", "K", "L", "M",
           "N", "O", "P", "Q", "R", "S", "T", "U", "V", "W", "X", "Y", "Z">>
Lower == <<"a", "b", "c", "d", "e", "f", "g", "h", "i", "j", "k", "l", "m",
           "n", "o", "p", "q", "r", "s", "t", "u", "v", "w", "x", "y", "z">>

lower_char(ch) ==
    IF \E k \in 1..26 : Upper[k] = ch
    THEN Lower[CHOOSE k \in 1..26 : Upper[k] = ch]
    ELSE ch

\* a lower() that leaves its argument as it is
lower_identity(s) == s

\* s.lower(): every cased character replaced by its lower-case form
RECURSIVE lower(_)
lower(s) == IF s = "" THEN ""
            ELSE lower_char(SubSeq(s, 1, 1)) \o lower(SubSeq(s, 2, Len(s)))

\* an f-string literal whose doubled braces are not collapsed
fliteral_raw(s) == s

\* the literal part of an f-string: {{ stands for { and }} for }
RECURSIVE fliteral(_)
fliteral(s) ==
    IF Len(s) < 2 THEN s
    ELSE IF SubSeq(s, 1, 2) = "{{" THEN "{" \o fliteral(SubSeq(s, 3, Len(s)))
    ELSE IF SubSeq(s, 1, 2) = "}}" THEN "}" \o fliteral(SubSeq(s, 3, Len(s)))
    ELSE SubSeq(s, 1, 1) \o fliteral(SubSeq(s, 2, Len(s)))

-----------------------------------------------------------------------------
(* Module-level constants of env.py.                                       *)

\* regions = [f"R{i}" for i in range(1, 11)]
regions == [k \in DOMAIN range(1, 11) |-> fliteral("R") \o str(range(1, 11)[k])]

\* types = ["DEV", "TEST", "STG", "PRD"]
types == <<"DEV", "TEST", "STG", "PRD">>

\* range(1, 21) of the inner loop
clusters == range(1, 21)

-----------------------------------------------------------------------------
(* The JSON encoder behind json.dumps and json.dump (default separators,   *)
(* ensure_ascii, keys in insertion order).                                 *)

\* insertion order of the keys of the dict literal appended to data
record_keys == <<"region", "name", "type", "urlPattern", "displayName",
                 "regionalUrlPattern", "clusterType">>

escape_char(ch) ==
    IF ch = "\"" THEN "\\\""
    ELSE IF ch = "\\" THEN "\\\\"
    ELSE IF ch = "\n" THEN "\\n"
    ELSE IF ch = "\r" THEN "\\r"
    ELSE IF ch = "\t" THEN "\\t"
    ELSE ch

RECURSIVE escape(_)
escape(s) == IF s = "" THEN ""
             ELSE escape_char(SubSeq(s, 1, 1)) \o escape(SubSeq(s, 2, Len(s)))

\* a str value: quoted, with the characters JSON reserves escaped
encode_str(s) == "\"" \o escape(s) \o "\""

RECURSIVE spaces(_)
spaces(n) == IF n <= 0 THEN "" ELSE " " \o spaces(n - 1)

\* the line break the encoder emits in front of an item at a nesting level
newline_indent(indent, level) == "\n" \o spaces(indent * level)

\* sep.join(parts[lo..hi]): parts[lo] sep parts[lo + 1] sep ... parts[hi]
RECURSIVE join(_, _, _, _)
join(sep, parts, lo, hi) ==
    IF hi < lo THEN ""
    ELSE IF hi = lo THEN parts[lo]
    ELSE LET mid == (lo + hi) \div 2
         IN  join(sep, parts, lo, mid) \o sep \o join(sep, parts, mid + 1, hi)

\* a dict of str values at a nesting level
encode_dict(d, indent, level) ==
    LET items == [k \in DOMAIN record_keys |->
                    encode_str(record_keys[k]) \o ": "
                        \o encode_str(d[record_keys[k]])]
    IN  "{" \o newline_indent(indent, level + 1)
            \o join("," \o newline_indent(indent, level + 1), items, 1, Len(items))
            \o newline_indent(indent, level) \o "}"

\* a list of dicts at a nesting level; the empty list is "[]"
encode_list(lst, indent, level) ==
    IF Len(lst) = 0 THEN "[]"
    ELSE LET items == [k \in DOMAIN lst |-> encode_dict(lst[k], indent, level + 1)]
         IN  "[" \o newline_indent(indent, level + 1)
                 \o join("," \o newline_indent(indent, level + 1), items, 1, Len(items))
                 \o newline_indent(indent, level) \o "]"

\* json.dumps(obj, indent=indent)
dumps(obj, indent) == encode_list(obj, indent, 0)

\* a print called with end=""
print_text_no_end(s) == s

\* what print(s) sends to sys.stdout: s followed by end="\n"
print_text(s) == s \o "\n"

\* open(path, 'a'): the earlier contents are kept
open_a(old) == old

\* what open(path, 'w') leaves in an existing or new file: nothing
open_w(old) == ""

\* the part of a text that reached its destination when a write was
\* interrupted: one of MaxCuts + 1 proper prefixes
cut(text, k) == SubSeq(text, 1, (k * Len(text)) \div (MaxCuts + 1))

-----------------------------------------------------------------------------
(* The process.                                                            *)

\* contents env.json may hold before the first execution
RECURSIVE prior(_)
prior(k) == IF k = 0 THEN "" ELSE prior(k - 1) \o "[]\n"

\* the state of a freshly started interpreter, before env.py:8
Fresh ==
    /\ pc = "for_region"
    /\ it_regions = 0
    /\ idx = 0
    /\ region = ""
    /\ env = ""
    /\ env_lower = ""
    /\ it_clusters = 0
    /\ c = 0
    /\ cluster_type = ""
    /\ name = ""
    /\ data = <<>>
    /\ stdout = ""
    /\ exit = "running"
    /\ raised_at = 0

Init ==
    /\ Fresh
    /\ file_exists \in BOOLEAN
    /\ file \in IF file_exists THEN {prior(k) : k \in 0..MaxPrior} ELSE {""}
    /\ run = 1
    /\ ok_runs = 0
    /\ first_ok = [stdout |-> "", file |-> ""]

loop_vars == <<it_regions, idx, region, env, env_lower, it_clusters, c,
               cluster_type, name, data>>
io_vars == <<stdout, file_exists, file, exit, raised_at, run, ok_runs,
             first_ok>>

\* env.py:8  for idx, region in enumerate(regions):
ForRegion ==
    /\ pc = "for_region"
    /\ IF it_regions < Len(regions)
       THEN /\ idx' = it_regions
            /\ region' = regions[it_regions + 1]
            /\ it_regions' = it_regions + 1
            /\ pc' = "env"
       ELSE /\ pc' = "print"
            /\ UNCHANGED <<idx, region, it_regions>>
    /\ UNCHANGED <<env, env_lower, it_clusters, c, cluster_type, name, data>>
    /\ UNCHANGED io_vars

\* a tier index taken modulo 3, which never reaches PRD
tier_of_mod3(i) == types[(i % 3) + 1]

\* env.py:9  types[idx % 4]  (Python sequences are indexed from 0)
tier_of(i) == types[(i % 4) + 1]

\* env.py:9  env = types[idx % 4]
AssignEnv ==
    /\ pc = "env"
    /\ env' = tier_of(idx)
    /\ pc' = "env_lower"
    /\ UNCHANGED <<it_regions, idx, region, env_lower, it_clusters, c,
                   cluster_type, name, data>>
    /\ UNCHANGED io_vars

\* env.py:10  env_lower = env.lower()
AssignEnvLower ==
    /\ pc = "env_lower"
    /\ env_lower' = lower(env)
    /\ it_clusters' = 0
    /\ pc' = "for_cluster"
    /\ UNCHANGED <<it_regions, idx, region, env, c, cluster_type, name, data>>
    /\ UNCHANGED io_vars

\* env.py:12  for c in range(1, 21):
ForCluster ==
    /\ pc = "for_cluster"
    /\ IF it_clusters < Len(clusters)
       THEN /\ c' = clusters[it_clusters + 1]
            /\ it_clusters' = it_clusters + 1
            /\ pc' = "cluster_type"
       ELSE /\ pc' = "for_region"
            /\ UNCHANGED <<c, it_clusters>>
    /\ UNCHANGED <<it_regions, idx, region, env, env_lower, cluster_type,
                   name, data>>
    /\ UNCHANGED io_vars

\* a generation test with < in place of <=
gen_of_strict(n) == IF n < 10 THEN "Gen1" ELSE "Gen2"

\* env.py:13  cluster_type = "Gen1" if c <= 10 else "Gen2"
gen_of(n) == IF n <= 10 THEN "Gen1" ELSE "Gen2"

AssignClusterType ==
    /\ pc = "cluster_type"
    /\ cluster_type' = gen_of(c)
    /\ pc' = "name"
    /\ UNCHANGED <<it_regions, idx, region, env, env_lower, it_clusters, c,
                   name, data>>
    /\ UNCHANGED io_vars

\* env.py:14  name = f"C{c}"
AssignName ==
    /\ pc = "name"
    /\ name' = fliteral("C") \o str(c)
    /\ pc' = "append"
    /\ UNCHANGED <<it_regions, idx, region, env, env_lower, it_clusters, c,
                   cluster_type, data>>
    /\ UNCHANGED io_vars

\* env.py:20  f"https://{{api}}.{name.lower()}.{env_lower}.example.com"
url_pattern(nm, el) ==
    fliteral("https://{{api}}.") \o lower(nm) \o fliteral(".") \o el
        \o fliteral(".example.com")

\* env.py:22  f"https://{{api}}.{env_lower}.example.com"
regional_url_pattern(el) ==
    fliteral("https://{{api}}.") \o el \o fliteral(".example.com")

\* env.py:16-24  the dict literal
record(rg, nm, ev, el, ct) ==
    [region             |-> rg,
     name               |-> nm,
     type               |-> ev,
     urlPattern         |-> url_pattern(nm, el),
     displayName        |-> nm,
     regionalUrlPattern |-> regional_url_pattern(el),
     clusterType        |-> ct]

\* an append that puts the new record in front
PrependRecord ==
    /\ pc = "append"
    /\ data' = <<record(region, name, env, env_lower, cluster_type)>> \o data
    /\ pc' = "for_cluster"
    /\ UNCHANGED <<it_regions, idx, region, env, env_lower, it_clusters, c,
                   cluster_type, name>>
    /\ UNCHANGED io_vars

\* env.py:16-24  data.append({...})
AppendRecord ==
    /\ pc = "append"
    /\ data' = Append(data, record(region, name, env, env_lower, cluster_type))
    /\ pc' = "for_cluster"
    /\ UNCHANGED <<it_regions, idx, region, env, env_lower, it_clusters, c,
                   cluster_type, name>>
    /\ UNCHANGED io_vars

\* the interpreter leaves with a status; the outputs of the first execution
\* that ends with status 0 are kept for comparison with later ones
Finish(status, line, out, contents) ==
    /\ pc' = "exited"
    /\ exit' = status
    /\ raised_at' = line
    /\ ok_runs' = IF status = "success" THEN ok_runs + 1 ELSE ok_runs
    /\ first_ok' = IF status = "success" /\ ok_runs = 0
                   THEN [stdout |-> out, file |-> contents]
                   ELSE first_ok

\* env.py:26  print(json.dumps(data, indent=2))
PrintData ==
    /\ pc = "print"
    /\ stdout' = stdout \o print_text(dumps(data, 2))
    /\ pc' = "open"
    /\ UNCHANGED loop_vars
    /\ UNCHANGED <<file_exists, file, exit, raised_at, run, ok_runs, first_ok>>

\* env.py:26  the write to sys.stdout raises OSError (closed pipe, full
\* device): part of the text is out, the traceback ends the process
PrintDataFail ==
    /\ pc = "print"
    /\ \E k \in 0..MaxCuts :
          /\ stdout' = stdout \o cut(print_text(dumps(data, 2)), k)
          /\ Finish("failure", 26, stdout', file)
    /\ UNCHANGED loop_vars
    /\ UNCHANGED <<file_exists, file, run>>

\* env.json opened in place of the print statement
OpenSkippingPrint ==
    /\ pc = "print"
    /\ file_exists' = TRUE
    /\ file' = open_w(file)
    /\ pc' = "dump"
    /\ UNCHANGED loop_vars
    /\ UNCHANGED <<stdout, exit, raised_at, run, ok_runs, first_ok>>

\* env.py:29  with open('env.json', 'w') as f:
Open ==
    /\ pc = "open"
    /\ file_exists' = TRUE
    /\ file' = open_w(file)
    /\ pc' = "dump"
    /\ UNCHANGED loop_vars
    /\ UNCHANGED <<stdout, exit, raised_at, run, ok_runs, first_ok>>

\* an open whose OSError is swallowed: the process ends with status 0
OpenFailSwallowed ==
    /\ pc = "open"
    /\ Finish("success", 0, stdout, file)
    /\ UNCHANGED loop_vars
    /\ UNCHANGED <<stdout, file_exists, file, run>>

\* env.py:29  open raises OSError (permission denied, path is a directory):
\* env.json is left as it was
OpenFail ==
    /\ pc = "open"
    /\ Finish("failure", 29, stdout, file)
    /\ UNCHANGED loop_vars
    /\ UNCHANGED <<stdout, file_exists, file, run>>

\* env.py:30  json.dump(data, f, indent=2)
Dump ==
    /\ pc = "dump"
    /\ file' = file \o dumps(data, 2)
    /\ pc' = "close"
    /\ UNCHANGED loop_vars
    /\ UNCHANGED <<stdout, file_exists, exit, raised_at, run, ok_runs,
                   first_ok>>

\* env.py:30  a write or the flush raises OSError (no space left): the with
\* statement closes f and the exception leaves the module
DumpFail ==
    /\ pc = "dump"
    /\ \E k \in 0..MaxCuts :
          /\ file' = file \o cut(dumps(data, 2), k)
          /\ Finish("failure", 30, stdout, file')
    /\ UNCHANGED loop_vars
    /\ UNCHANGED <<stdout, file_exists, run>>

\* env.py:29-30  the with block ends, f is closed, the module ends: status 0
Close ==
    /\ pc = "close"
    /\ Finish("success", 0, stdout, file)
    /\ UNCHANGED loop_vars
    /\ UNCHANGED <<stdout, file_exists, file, run>>

\* the script is started again in the same working directory
StartRun ==
    /\ pc = "exited"
    /\ run < MaxRuns
    /\ run' = run + 1
    /\ pc' = "for_region"
    /\ it_regions' = 0
    /\ idx' = 0
    /\ region' = ""
    /\ env' = ""
    /\ env_lower' = ""
    /\ it_clusters' = 0
    /\ c' = 0
    /\ cluster_type' = ""
    /\ name' = ""
    /\ data' = <<>>
    /\ stdout' = ""
    /\ exit' = "running"
    /\ raised_at' = 0
    /\ UNCHANGED <<file_exists, file, ok_runs, first_ok>>

Next ==
    \/ ForRegion
    \/ AssignEnv
    \/ AssignEnvLower
    \/ ForCluster
    \/ AssignClusterType
    \/ AssignName
    \/ AppendRecord
    \/ PrintData
    \/ PrintDataFail
    \/ Open
    \/ OpenFail
    \/ Dump
    \/ DumpFail
    \/ Close
    \/ StartRun

Spec == Init /\ [][Next]_vars

-----------------------------------------------------------------------------
(* Properties.  The expected texts are written out as literals, so that    *)
(* the formatting operators above are compared with what the script is     *)
(* documented to produce and not with themselves.                          *)

RegionNames == <<"R1", "R2", "R3", "R4", "R5", "R6", "R7", "R8", "R9", "R10">>

ClusterNames == <<"C1", "C2", "C3", "C4", "C5", "C6", "C7", "C8", "C9", "C10",
                  "C11", "C12", "C13", "C14", "C15", "C16", "C17", "C18",
                  "C19", "C20">>

ClusterNamesLower == <<"c1", "c2", "c3", "c4", "c5", "c6", "c7", "c8", "c9",
                       "c10", "c11", "c12", "c13", "c14", "c15", "c16", "c17",
                       "c18", "c19", "c20">>

TierCycle == <<"DEV", "TEST", "STG", "PRD">>

TierLower == <<"dev", "test", "stg", "prd">>

\* the generation loop is over
LoopFinished == pc \in {"print", "open", "dump", "close", "exited"}

\* the text of the full output as the running process would render it
Rendered == dumps(data, 2)

\* C1: once the generation loop has finished, data holds exactly 200
\* records, on every run.
C1_RecordCount == LoopFinished => Len(data) = 200

C1_Witness == pc = "print" /\ Len(data) = 200 /\ stdout = ""

PositionsInOrder ==
    \A p \in 1..Len(data) :
        /\ p <= 200
        /\ data[p].region = RegionNames[((p - 1) \div 20) + 1]
        /\ data[p].name = ClusterNames[((p - 1) % 20) + 1]

FirstAndLast ==
    /\ Len(data) >= 1 =>
          /\ data[1].region = "R1"
          /\ data[1].name = "C1"
          /\ data[1].type = "DEV"
          /\ data[1].clusterType = "Gen1"
    /\ LoopFinished =>
          /\ Len(data) >= 1
          /\ data[Len(data)].region = "R10"
          /\ data[Len(data)].name = "C20"
          /\ data[Len(data)].type = "TEST"
          /\ data[Len(data)].clusterType = "Gen2"

\* within one execution a step keeps every record where and as it is
RecordsStay ==
    run' = run =>
        /\ Len(data') >= Len(data)
        /\ \A p \in 1..Len(data) : data'[p] = data[p]

\* C2: records are appended in region-major order: the record at zero-based
\* position 20*(r-1)+(c-1) has region R<r> and name C<c>, the first record
\* is R1/C1/DEV/Gen1 and the last R10/C20/TEST/Gen2, and no record is moved
\* or changed after it is appended.
C2_RegionMajorOrder ==
    /\ [](PositionsInOrder /\ FirstAndLast)
    /\ [][RecordsStay]_vars

C2_Witness ==
    /\ exit = "success"
    /\ Len(data) = 200
    /\ data[21].region = "R2"
    /\ data[21].name = "C1"

\* C3: the type of every record is ["DEV","TEST","STG","PRD"][idx mod 4]
\* for the zero-based position idx of its region in R1..R10: R1, R5, R9 are
\* DEV, R2, R6, R10 are TEST, R3, R7 are STG and R4, R8 are PRD.
C3_TierByRegionPosition ==
    \A p \in 1..Len(data) :
        \E k \in 1..10 :
            /\ data[p].region = RegionNames[k]
            /\ data[p].type = TierCycle[((k - 1) % 4) + 1]
            /\ data[p].type = <<"DEV", "TEST", "STG", "PRD", "DEV", "TEST",
                                "STG", "PRD", "DEV", "TEST">>[k]

C3_Witness ==
    /\ LoopFinished
    /\ \E p \in 1..Len(data) : data[p].region = "R8" /\ data[p].type = "PRD"
    /\ \E p \in 1..Len(data) : data[p].region = "R9" /\ data[p].type = "DEV"

\* C4 as stated: after an execution in which both writes completed, the
\* contents of env.json equal the text on standard output character for
\* character, trailing newline included.
C4_FileEqualsStdout ==
    exit = "success" => (file_exists /\ file = stdout)

\* C4 as amended: after an execution in which both writes completed, the
\* text on standard output is the contents of env.json followed by exactly
\* one newline, which print adds and json.dump does not.
C4_StdoutIsFilePlusNewline ==
    exit = "success" =>
        /\ file_exists
        /\ stdout = file \o "\n"
        /\ Len(file) > 0
        /\ SubSeq(file, Len(file), Len(file)) # "\n"

C4_Witness == exit = "success" /\ file_exists /\ Len(file) > 2 /\ run = 1

\* env.json was created, truncated or written by the step
FileTouched == file' # file \/ file_exists' # file_exists

\* C5: in every run the full 200-record JSON text is on standard output
\* before env.json is opened or written, and the successful exit comes only
\* after both the standard-output write and the file write completed.
C5_StdoutBeforeFile ==
    /\ []((pc \in {"dump", "close"} \/ exit = "success") =>
              /\ Len(data) = 200
              /\ stdout = Rendered \o "\n")
    /\ [](exit = "success" => (file_exists /\ file = Rendered))
    /\ [][FileTouched =>
              /\ Len(data) = 200
              /\ stdout = Rendered \o "\n"
              /\ stdout' = stdout]_vars
    /\ [][(exit' = "success" /\ exit # "success") =>
              /\ pc = "close"
              /\ file = Rendered
              /\ UNCHANGED <<stdout, file>>]_vars

C5_Witness ==
    /\ pc = "dump"
    /\ file_exists
    /\ file = ""
    /\ Len(stdout) > 2

\* a failure of open or of the write into env.json ends the process in the
\* failure state and leaves standard output as it was
FileFailurePropagates ==
    /\ (pc \in {"open", "dump"} /\ pc' = "exited") =>
          /\ exit' = "failure"
          /\ stdout' = stdout
          /\ stdout = Rendered \o "\n"
          /\ UNCHANGED <<ok_runs, first_ok>>
    /\ (pc = "open" /\ pc' = "exited") => UNCHANGED <<file_exists, file>>

\* nothing follows a failure inside the same execution: no handler, no retry
NoRecovery ==
    exit = "failure" =>
        /\ pc = "exited"
        /\ run' = run + 1
        /\ UNCHANGED <<file_exists, file, ok_runs, first_ok>>

\* C6 as stated: a failure of open or of the write into env.json is neither
\* caught nor retried, the process ends in the failure state and never in
\* the success state, standard output is not retracted, and no other step
\* of the program can put the process in the failure state.
C6_OnlyFileStepsFail ==
    /\ [][FileFailurePropagates /\ NoRecovery]_vars
    /\ [](exit = "failure" => raised_at \in {29, 30})

\* C6 as amended: a failure of open or of the write into env.json is
\* neither caught nor retried, the process ends in the failure state and
\* never in the success state, and standard output is not retracted; the
\* only other step that can put the process in the failure state is the
\* standard-output write of line 26, and the generation loop cannot.
C6_OnlyOutputStepsFail ==
    /\ [][FileFailurePropagates /\ NoRecovery]_vars
    /\ [](exit = "failure" => raised_at \in {26, 29, 30})
    /\ [][(exit' = "failure" /\ exit # "failure") =>
              pc \in {"print", "open", "dump"}]_vars
    /\ [](raised_at = 26 => exit = "failure")

C6_Witness ==
    /\ exit = "failure"
    /\ raised_at = 30
    /\ Len(stdout) > 2
    /\ Len(file) > 0

RegionalPatternOf(t) ==
    CASE t = "DEV"  -> "https://{api}.dev.example.com"
      [] t = "TEST" -> "https://{api}.test.example.com"
      [] t = "STG"  -> "https://{api}.stg.example.com"
      [] t = "PRD"  -> "https://{api}.prd.example.com"
      [] OTHER      -> ""

\* C7: all records of a region carry the same type and the same
\* regionalUrlPattern, which is https://{api}.<type lower-cased>.example.com
\* with no cluster name in it.
C7_RegionalPattern ==
    /\ \A p \in 1..Len(data) :
          data[p].regionalUrlPattern = RegionalPatternOf(data[p].type)
    /\ (pc = "for_region" \/ LoopFinished) =>
          \A k \in 1..10 :
              LET S == {p \in 1..Len(data) : data[p].region = RegionNames[k]}
              IN  S # {} =>
                      /\ Cardinality(S) = 20
                      /\ \A p, q \in S :
                            /\ data[p].type = data[q].type
                            /\ data[p].regionalUrlPattern
                                   = data[q].regionalUrlPattern

C7_Witness ==
    /\ Len(data) >= 80
    /\ data[61].type = "PRD"
    /\ data[80].regionalUrlPattern = "https://{api}.prd.example.com"

DigitValue(ch) ==
    CASE ch = "0" -> 0 [] ch = "1" -> 1 [] ch = "2" -> 2 [] ch = "3" -> 3
      [] ch = "4" -> 4 [] ch = "5" -> 5 [] ch = "6" -> 6 [] ch = "7" -> 7
      [] ch = "8" -> 8 [] ch = "9" -> 9 [] OTHER -> 0

RECURSIVE DecimalValue(_)
DecimalValue(s) ==
    IF s = "" THEN 0
    ELSE 10 * DecimalValue(SubSeq(s, 1, Len(s) - 1))
            + DigitValue(SubSeq(s, Len(s), Len(s)))

\* the number after the leading letter of a cluster name
NumericSuffix(nm) == DecimalValue(SubSeq(nm, 2, Len(nm)))

CountOf(rg, ct) ==
    Cardinality({p \in 1..Len(data) :
                    data[p].region = rg /\ data[p].clusterType = ct})

\* C8: clusterType is "Gen1" if the numeric suffix of name is at most 10
\* and "Gen2" otherwise, whatever the region and tier, so each region has
\* exactly 10 Gen1 and 10 Gen2 records.
C8_GenerationBySuffix ==
    /\ \A p \in 1..Len(data) :
          data[p].clusterType =
              (IF NumericSuffix(data[p].name) <= 10 THEN "Gen1" ELSE "Gen2")
    /\ (pc = "for_region" \/ LoopFinished) =>
          \A k \in 1..10 :
              (20 * k <= Len(data)) =>
              /\ CountOf(RegionNames[k], "Gen1") = 10
              /\ CountOf(RegionNames[k], "Gen2") = 10

C8_Witness ==
    /\ LoopFinished
    /\ data[10].name = "C10" /\ data[10].clusterType = "Gen1"
    /\ data[11].name = "C11" /\ data[11].clusterType = "Gen2"

\* C9: urlPattern is https://{api}. + lower-cased name + . + lower-cased
\* type + .example.com with the token {api} kept literally; C5 in a DEV
\* region gives https://{api}.c5.dev.example.com.
C9_UrlPattern ==
    \A p \in 1..Len(data) :
        /\ \E k \in 1..20, t \in 1..4 :
              /\ data[p].name = ClusterNames[k]
              /\ data[p].type = TierCycle[t]
              /\ data[p].urlPattern =
                     "https://{api}." \o ClusterNamesLower[k] \o "."
                         \o TierLower[t] \o ".example.com"
        /\ (data[p].name = "C5" /\ data[p].type = "DEV") =>
              data[p].urlPattern = "https://{api}.c5.dev.example.com"

C9_Witness ==
    \E p \in 1..Len(data) :
        /\ data[p].name = "C5"
        /\ data[p].type = "DEV"
        /\ data[p].region = "R5"

\* C10: two successive executions that complete, whatever env.json held
\* before each of them, leave the same text on standard output and the same
\* contents in env.json: the later one overwrites the file with identical
\* content.
C10_RunsAgree ==
    exit = "success" =>
        /\ ok_runs >= 1
        /\ file_exists
        /\ stdout = first_ok.stdout
        /\ file = first_ok.file

C10_Witness ==
    /\ exit = "success"
    /\ ok_runs = 2
    /\ run = 2

====
